---- MODULE Spec2Model ----
(***************************************************************************)
(* Model of examples/python-demo/functions/api/handler.py: the module      *)
(* start-up (database connection, table creation, S3 client) and the       *)
(* request handler main with its six data operations, run against a        *)
(* PostgreSQL database (tables items and media) and an S3 bucket.          *)
(*                                                                         *)
(* Python's None is the empty sequence and a present value v is <<v>>;     *)
(* str(e) of an exception is a sequence of text fragments.                 *)
(***************************************************************************)
EXTENDS Integers, Sequences, FiniteSets, TLC

\* ---------------------------------------------------------------- bounds
\* Values the two id sequences and uuid4 may hand out together before create
\* and upload requests stop.
MaxSerial == 2

\* ------------------------------------------------------- program constants
LIMIT == 50
ExpiresIn == 86400

\* ------------------------------------------------------------ Python values
None == <<>>
Some(v) == <<v>>
\* Truth value of an optional string (None and '' are falsy).
Truthy(opt) == opt # None /\ opt[1] # ""
\* str(x) of an optional string.
PyStr(opt) == IF opt = None THEN "None" ELSE opt[1]
\* x or d
PyOr(opt, d) == IF Truthy(opt) THEN opt[1] ELSE d
\* dict.get(key, default) on a field that is None when the key is absent
GetD(field, d) == IF field = None THEN d ELSE field[1]

Connection == <<"connection">>
Client == <<"s3">>

\* ------------------------------------------------------------- environment
DbUrls == {None, Some(""), Some("postgres://u:p@h:5432/d")}
Buckets == {None, Some(""), Some("bucket")}
\* What the start-up sequence meets once DATABASE_URL is set.
StartupOutcomes ==
  {"ok", "parse_error", "connect_error", "create_items_error", "create_media_error"}

StartupError(outcome) ==
  CASE outcome = "parse_error" -> "Port could not be cast to integer value"
    [] outcome = "connect_error" -> "could not connect to server"
    [] outcome = "create_items_error" -> "permission denied for schema public"
    [] outcome = "create_media_error" -> "permission denied for schema public"
    [] OTHER -> ""

VARIABLES
  env,         \* the process environment read at start-up
  db_conn,     \* handler.py:10  None or the connection
  db_error,    \* handler.py:11  None or str(e) of the start-up exception
  s3_client,   \* handler.py:12  None or the client
  s3_bucket,   \* handler.py:13  None or the bucket name
  items_tbl,   \* relation items exists in the database
  media_tbl,   \* relation media exists in the database
  items,       \* rows of table items
  items_seq,   \* last value of sequence items_id_seq
  media,       \* rows of table media
  media_seq,   \* last value of sequence media_id_seq
  store,       \* the bucket: key -> object
  issued,      \* identifiers uuid4 has returned
  event,       \* the event of the last request
  fault,       \* the store call that failed during the last request
  resp,        \* what main returned for the last request
  caught,      \* None or str(e) of the exception main's except clause caught
  s3log,       \* the s3_client calls of the last request, in order
  createdIds,  \* ids returned by successful create requests, in call order
  uploadKeys   \* storage keys generated by upload requests, in call order

config == <<env, db_conn, db_error, s3_client, s3_bucket, items_tbl, media_tbl>>
tables == <<items, items_seq, media, media_seq, store, issued>>
vars == <<config, tables, event, fault, resp, caught, s3log, createdIds, uploadKeys>>

\* ------------------------------------------------------------------ start-up
\* handler.py:10-53. The state the module-level code leaves behind for the
\* environment (db_url, bucket), when the start-up sequence meets `outcome`.
\* A CREATE TABLE IF NOT EXISTS that fails leaves its relation, and the one
\* whose statement is then skipped, as they were before the process started
\* (existed).
Startup(db_url, bucket, outcome, existed) ==
  LET attempted == Truthy(db_url)
      connected == attempted /\ outcome \notin {"parse_error", "connect_error"}
  IN  [ db_conn   |-> IF connected THEN Connection ELSE None,
        db_error  |-> IF attempted /\ outcome # "ok"
                        THEN Some(StartupError(outcome)) ELSE None,
        s3_bucket |-> bucket,
        s3_client |-> IF Truthy(bucket) THEN Client ELSE None,
        items_tbl |-> connected /\ (outcome = "create_items_error" => existed),
        media_tbl |-> connected /\ (outcome = "ok" \/ existed) ]

\* ------------------------------------------------------------------ requests
\* A JSON object of a request body; a field is None when its key is absent.
Obj == [ action |-> None, id |-> None, name |-> None, description |-> None,
         filename |-> None, contentType |-> None, data |-> None ]

\* The text of a body: the empty string, text that is no JSON, a JSON array,
\* or a JSON object.
EmptyText == [ t |-> "empty", o |-> Obj ]
InvalidText == [ t |-> "invalid", o |-> Obj ]
ArrayText == [ t |-> "array", o |-> Obj ]
ObjText(o) == [ t |-> "object", o |-> o ]

ItemIds == 1 .. MaxSerial
MediaIds == 1 .. MaxSerial

StatusObjs == { [Obj EXCEPT !.action = Some("LIST")] }
ListObjs == { [Obj EXCEPT !.action = Some("list")] }
CreateObjs ==
  { [Obj EXCEPT !.action = Some("create"), !.description = Some("a thing")],
    [Obj EXCEPT !.action = Some("create"), !.name = Some("widget")] }
DeleteObjs ==
  { [Obj EXCEPT !.action = Some("delete"), !.id = i] :
      i \in {None} \cup { Some(k) : k \in ItemIds } }
UploadObjs ==
  { [Obj EXCEPT !.action = Some("upload"), !.data = d] :
      d \in {None, Some(""), Some("A"), Some("QQ==")} }
  \cup { [Obj EXCEPT !.action = Some("upload"), !.filename = Some("a.png"),
                     !.data = Some("QQ==")] }
ListMediaObjs == { [Obj EXCEPT !.action = Some("list-media")] }
DeleteMediaObjs ==
  { [Obj EXCEPT !.action = Some("delete-media"), !.id = i] :
      i \in {None} \cup { Some(k) : k \in MediaIds } }

Event(text) == [ body |-> text ]
NoEvent == Event(None)
BadEvents == { Event(Some(InvalidText)), Event(Some(ArrayText)) }
EventsOf(objs) == { Event(Some(ObjText(o))) : o \in objs }
StatusEvents == { Event(None), Event(Some(EmptyText)) } \cup EventsOf(StatusObjs)

\* ------------------------------------------------------------ store faults
\* The one call to the database or to S3 that raises during a request.
NoFault == "none"

\* ---------------------------------------------------------------- outcomes
Cur == [ items |-> items, items_seq |-> items_seq, media |-> media,
         media_seq |-> media_seq, store |-> store, issued |-> issued,
         s3log |-> <<>>, createdIds |-> createdIds, uploadKeys |-> uploadKeys ]
Raise(msg, st) == [ raised |-> TRUE, value |-> msg, st |-> st ]
Return(v, st) == [ raised |-> FALSE, value |-> v, st |-> st ]

NotConnected == <<"Database not connected: ", PyStr(db_error)>>
StoreError(call) == <<"store call failed: ", call>>
NoRelation(tbl) == <<"relation does not exist: ", tbl>>

\* event.get('body') or '{}'
BodyText(ev) ==
  IF ev.body = None \/ ev.body[1].t = "empty" THEN ObjText(Obj) ELSE ev.body[1]

\* json.loads
json_loads(text) ==
  IF text.t = "invalid"
    THEN [ raised |-> TRUE, value |-> <<"Expecting value">> ]
    ELSE [ raised |-> FALSE, value |-> text ]

\* json.dumps
json_dumps(v) == [ json |-> v ]

\* ------------------------------------------------------------------ database
\* A variant of nextval that numbers a row one past the largest id in the table.
nextval_max(seq, rows) ==
  IF rows = {} THEN 1
  ELSE (CHOOSE i \in { r.id : r \in rows } : \A r \in rows : r.id <= i) + 1

\* id SERIAL: nextval of the table's sequence; a value once handed out is
\* never handed out again, whether or not the INSERT then succeeds.
nextval(seq, rows) == seq + 1

\* ORDER BY created_at DESC
RECURSIVE OrderByCreatedDesc(_)
OrderByCreatedDesc(rows) ==
  IF rows = {} THEN <<>>
  ELSE LET r == CHOOSE x \in rows : \A y \in rows : y.created_at <= x.created_at
       IN  <<r>> \o OrderByCreatedDesc(rows \ {r})

\* LIMIT n
Limit(rowSeq, n) == SubSeq(rowSeq, 1, IF Len(rowSeq) < n THEN Len(rowSeq) ELSE n)

\* WHERE id = %s (a NULL parameter matches no row)
WhereId(rows, id) == { r \in rows : id # None /\ r.id = id[1] }

\* ----------------------------------------------------------- item operations
\* handler.py:101-116
list_items(f) ==
  IF db_conn = None THEN Raise(NotConnected, Cur)
  ELSE IF f = "select_items" THEN Raise(StoreError(f), Cur)
  ELSE IF ~items_tbl THEN Raise(NoRelation("items"), Cur)
  ELSE Return([ row \in DOMAIN Limit(OrderByCreatedDesc(items), LIMIT) |->
                  LET r == Limit(OrderByCreatedDesc(items), LIMIT)[row]
                  IN  [ id |-> r.id, name |-> r.name,
                        description |-> PyOr(r.description, ""),
                        createdAt |-> r.created_at ] ],
              Cur)

\* handler.py:119-137
create_item(body, f) ==
  IF db_conn = None THEN Raise(NotConnected, Cur)
  ELSE IF f = "insert_item" THEN Raise(StoreError(f), Cur)
  ELSE IF ~items_tbl THEN Raise(NoRelation("items"), Cur)
  ELSE LET name == body.name
           description == Some(GetD(body.description, ""))
           id == nextval(items_seq, items)
       IN  IF name = None
             THEN Raise(<<"null value in column \"name\" violates not-null constraint">>,
                        [Cur EXCEPT !.items_seq = id])
             ELSE Return([ id |-> id, name |-> name[1],
                           description |-> description[1], createdAt |-> id ],
                         [Cur EXCEPT !.items_seq = id,
                                     !.items = items \cup
                                       { [ id |-> id, name |-> name[1],
                                           description |-> description,
                                           created_at |-> id ] },
                                     !.createdIds = Append(createdIds, id)])

\* A variant of delete_item that reports deleted whenever the statement ran.
delete_item_always(body, f) ==
  IF db_conn = None THEN Raise(NotConnected, Cur)
  ELSE IF f = "delete_item_row" THEN Raise(StoreError(f), Cur)
  ELSE IF ~items_tbl THEN Raise(NoRelation("items"), Cur)
  ELSE LET item_id == body.id
           hit == WhereId(items, item_id)
       IN  Return([ deleted |-> Cardinality(hit) >= 0 ],
                  [Cur EXCEPT !.items = items \ hit])

\* handler.py:140-148
delete_item(body, f) ==
  IF db_conn = None THEN Raise(NotConnected, Cur)
  ELSE IF f = "delete_item_row" THEN Raise(StoreError(f), Cur)
  ELSE IF ~items_tbl THEN Raise(NoRelation("items"), Cur)
  ELSE LET item_id == body.id
           hit == WhereId(items, item_id)
       IN  Return([ deleted |-> Cardinality(hit) > 0 ],
                  [Cur EXCEPT !.items = items \ hit])

\* ------------------------------------------------------------------- storage
\* uuid.uuid4(): the identifiers it can return. It returns none twice; the
\* identifiers are opaque (only their equality is observed), so a run is taken
\* up to their renaming and the next one is the least not yet returned.
UUIDs == 1 .. MaxSerial
uuid4 == CHOOSE u \in UUIDs \ issued : \A v \in UUIDs \ issued : u <= v

\* A variant of S3Key that leaves the identifier out of the key.
S3Key_plain(uuid, filename) == <<"media/", filename>>

\* f"media/{uuid.uuid4()}/{filename}"
S3Key(uuid, filename) == <<"media/", uuid, "/", filename>>

\* base64.b64decode
b64decode(text) ==
  CASE text = "QQ==" -> [ raised |-> FALSE, value |-> <<65>> ]
    [] text = "QUI=" -> [ raised |-> FALSE, value |-> <<65, 66>> ]
    [] OTHER -> [ raised |-> TRUE, value |-> <<"Incorrect padding">> ]

Keys(objects) == { o.Key : o \in objects }
\* s3_client.put_object: writes the object, replacing one under the same key
put_object(objects, key, bytes, content_type) ==
  { o \in objects : o.Key # key } \cup
    { [ Key |-> key, Body |-> bytes, ContentType |-> content_type ] }
\* s3_client.delete_object
delete_object(objects, key) == { o \in objects : o.Key # key }
\* s3_client.generate_presigned_url
generate_presigned_url(key) == <<"https://", s3_bucket[1], key, ExpiresIn>>

\* A variant of MediaRow that binds the INSERT's parameters in the wrong order.
MediaRow_swapped(id, filename, s3_key, content_type, size_bytes) ==
  [ id |-> id, filename |-> s3_key, s3_key |-> <<filename>>,
    content_type |-> content_type, size_bytes |-> size_bytes, created_at |-> id ]

\* handler.py:182-185, the row INSERT INTO media ... VALUES adds
MediaRow(id, filename, s3_key, content_type, size_bytes) ==
  [ id |-> id, filename |-> filename, s3_key |-> s3_key,
    content_type |-> content_type, size_bytes |-> size_bytes, created_at |-> id ]

Call(op, key, ok) == [ op |-> op, key |-> key, ok |-> ok ]

\* ---------------------------------------------------------- media operations
\* handler.py:151-193
upload_media(body, f, uuid) ==
  IF db_conn = None THEN Raise(NotConnected, Cur)
  ELSE IF s3_client = None THEN Raise(<<"Storage not configured">>, Cur)
  ELSE
    LET filename == GetD(body.filename, "file")
        content_type == GetD(body.contentType, "application/octet-stream")
        data == body.data
    IN
    IF ~Truthy(data) THEN Raise(<<"No file data provided">>, Cur)
    ELSE IF b64decode(data[1]).raised THEN Raise(b64decode(data[1]).value, Cur)
    ELSE
      LET file_bytes == b64decode(data[1]).value
          s3_key == S3Key(uuid[1], filename)
          generated == [Cur EXCEPT !.issued = issued \cup {uuid[1]},
                                   !.uploadKeys = Append(uploadKeys, s3_key)]
          written == [generated EXCEPT
                        !.store = put_object(store, s3_key, file_bytes, content_type),
                        !.s3log = <<Call("put_object", s3_key, TRUE)>>]
          signed == [written EXCEPT
                        !.s3log = Append(@, Call("generate_presigned_url", s3_key, TRUE))]
          id == nextval(media_seq, media)
      IN
      IF f = "put_object"
        THEN Raise(StoreError(f),
                   [generated EXCEPT !.s3log = <<Call("put_object", s3_key, FALSE)>>])
      ELSE IF f = "presign"
        THEN Raise(StoreError(f),
                   [written EXCEPT
                      !.s3log = Append(@, Call("generate_presigned_url", s3_key, FALSE))])
      ELSE IF f = "insert_media" THEN Raise(StoreError(f), signed)
      ELSE IF ~media_tbl THEN Raise(NoRelation("media"), signed)
      ELSE Return([ id |-> id, filename |-> filename, s3Key |-> s3_key,
                    url |-> generate_presigned_url(s3_key), createdAt |-> id ],
                  [signed EXCEPT
                     !.media_seq = id,
                     !.media = media \cup
                       { MediaRow(id, filename, s3_key, content_type,
                                  Len(file_bytes)) }])

\* handler.py:196-219
list_media(f) ==
  IF db_conn = None THEN Raise(NotConnected, Cur)
  ELSE IF f = "select_media" THEN Raise(StoreError(f), Cur)
  ELSE IF ~media_tbl THEN Raise(NoRelation("media"), Cur)
  ELSE
    LET rows == Limit(OrderByCreatedDesc(media), LIMIT)
        calls == IF s3_client = None THEN <<>>
                 ELSE [ i \in DOMAIN rows |->
                          Call("generate_presigned_url", rows[i].s3_key, TRUE) ]
    IN
    IF f = "presign" /\ s3_client # None /\ rows # <<>>
      THEN Raise(StoreError(f),
                 [Cur EXCEPT !.s3log =
                    <<Call("generate_presigned_url", rows[1].s3_key, FALSE)>>])
      ELSE Return([ i \in DOMAIN rows |->
                      [ id |-> rows[i].id, filename |-> rows[i].filename,
                        s3Key |-> rows[i].s3_key,
                        url |-> IF s3_client # None
                                  THEN generate_presigned_url(rows[i].s3_key)
                                  ELSE <<"/", rows[i].s3_key>>,
                        contentType |-> rows[i].content_type,
                        sizeBytes |-> rows[i].size_bytes,
                        createdAt |-> rows[i].created_at ] ],
                  [Cur EXCEPT !.s3log = calls])

\* A variant of delete_media that deletes the row before the object.
delete_media_rowfirst(body, f) ==
  IF db_conn = None THEN Raise(NotConnected, Cur)
  ELSE IF s3_client = None THEN Raise(<<"Storage not configured">>, Cur)
  ELSE IF f = "select_media" THEN Raise(StoreError(f), Cur)
  ELSE IF ~media_tbl THEN Raise(NoRelation("media"), Cur)
  ELSE
    LET found == WhereId(media, body.id)
    IN
    IF found # {}
      THEN LET row == CHOOSE r \in found : TRUE
               unlisted == [Cur EXCEPT !.media = media \ found]
           IN  IF f = "delete_media_row" THEN Raise(StoreError(f), Cur)
               ELSE IF f = "delete_object"
                 THEN Raise(StoreError(f),
                            [unlisted EXCEPT !.s3log =
                               <<Call("delete_object", row.s3_key, FALSE)>>])
               ELSE Return([ deleted |-> TRUE ],
                           [unlisted EXCEPT
                              !.store = delete_object(store, row.s3_key),
                              !.s3log = <<Call("delete_object", row.s3_key, TRUE)>>])
      ELSE Return([ deleted |-> FALSE ], Cur)

\* A variant of delete_media that deletes the object of the oldest row when
\* the id matches none.
delete_media_fallback(body, f) ==
  IF db_conn = None THEN Raise(NotConnected, Cur)
  ELSE IF s3_client = None THEN Raise(<<"Storage not configured">>, Cur)
  ELSE IF f = "select_media" THEN Raise(StoreError(f), Cur)
  ELSE IF ~media_tbl THEN Raise(NoRelation("media"), Cur)
  ELSE
    LET hit == WhereId(media, body.id)
        found == IF hit # {} THEN hit
                 ELSE { r \in media : \A q \in media : r.id <= q.id }
    IN
    IF found # {}
      THEN LET row == CHOOSE r \in found : TRUE
               removed == [Cur EXCEPT
                             !.store = delete_object(store, row.s3_key),
                             !.s3log = <<Call("delete_object", row.s3_key, TRUE)>>]
           IN  IF f = "delete_object"
                 THEN Raise(StoreError(f),
                            [Cur EXCEPT !.s3log =
                               <<Call("delete_object", row.s3_key, FALSE)>>])
               ELSE IF f = "delete_media_row" THEN Raise(StoreError(f), removed)
               ELSE Return([ deleted |-> TRUE ],
                           [removed EXCEPT !.media = media \ found])
      ELSE Return([ deleted |-> FALSE ], Cur)

\* handler.py:222-237
delete_media(body, f) ==
  IF db_conn = None THEN Raise(NotConnected, Cur)
  ELSE IF s3_client = None THEN Raise(<<"Storage not configured">>, Cur)
  ELSE IF f = "select_media" THEN Raise(StoreError(f), Cur)
  ELSE IF ~media_tbl THEN Raise(NoRelation("media"), Cur)
  ELSE
    LET media_id == body.id
        found == WhereId(media, media_id)
    IN
    IF found # {}
      THEN LET row == CHOOSE r \in found : TRUE
               removed == [Cur EXCEPT
                             !.store = delete_object(store, row.s3_key),
                             !.s3log = <<Call("delete_object", row.s3_key, TRUE)>>]
           IN  IF f = "delete_object"
                 THEN Raise(StoreError(f),
                            [Cur EXCEPT !.s3log =
                               <<Call("delete_object", row.s3_key, FALSE)>>])
               ELSE IF f = "delete_media_row" THEN Raise(StoreError(f), removed)
               ELSE Return([ deleted |-> TRUE ],
                           [removed EXCEPT !.media = media \ found])
      ELSE Return([ deleted |-> FALSE ], Cur)

\* ---------------------------------------------------------------- dispatcher
\* handler.py:79-85
status_probe ==
  [ status |-> "ok", python |-> "3.13", db |-> db_conn # None,
    storage |-> s3_bucket # None, dbError |-> PyOr(db_error, "") ]

\* handler.py:63-85, the body of main's try block up to the result
dispatch(ev, f, uuid) ==
  LET parsed == json_loads(BodyText(ev))
  IN
  IF parsed.raised THEN Raise(parsed.value, Cur)
  ELSE IF parsed.value.t # "object"
    THEN Raise(<<"'list' object has no attribute 'get'">>, Cur)
  ELSE
    LET body == parsed.value.o
        action == GetD(body.action, "status")
    IN  CASE action = "list" -> list_items(f)
          [] action = "create" -> create_item(body, f)
          [] action = "delete" -> delete_item(body, f)
          [] action = "upload" -> upload_media(body, f, uuid)
          [] action = "list-media" -> list_media(f)
          [] action = "delete-media" -> delete_media(body, f)
          [] OTHER -> Return(status_probe, Cur)

headers == [ ContentType |-> "application/json", AccessControlAllowOrigin |-> "*" ]

\* A variant of Response whose except clause answers with statusCode 200.
Response_ok(out) ==
  [ statusCode |-> 200, headers |-> headers,
    body |-> IF out.raised THEN json_dumps([ error |-> out.value ])
                           ELSE json_dumps(out.value) ]

\* handler.py:87-98, the record main returns
Response(out) ==
  IF out.raised
    THEN [ statusCode |-> 500, headers |-> headers,
           body |-> json_dumps([ error |-> out.value ]) ]
    ELSE [ statusCode |-> 200, headers |-> headers,
           body |-> json_dumps(out.value) ]

NoResponse == [ statusCode |-> 0, headers |-> headers, body |-> json_dumps(None) ]

\* handler.py:56-98, one invocation of main
main(ev, f, uuid) ==
  LET out == dispatch(ev, f, uuid)
  IN  /\ event' = ev
      /\ fault' = IF out.raised /\ out.value = StoreError(f) THEN f ELSE NoFault
      /\ resp' = Response(out)
      /\ caught' = IF out.raised THEN Some(out.value) ELSE None
      /\ items' = out.st.items
      /\ items_seq' = out.st.items_seq
      /\ media' = out.st.media
      /\ media_seq' = out.st.media_seq
      /\ store' = out.st.store
      /\ issued' = out.st.issued
      /\ s3log' = out.st.s3log
      /\ createdIds' = out.st.createdIds
      /\ uploadKeys' = out.st.uploadKeys
      /\ UNCHANGED config

\* ------------------------------------------------------------------ actions
\* handler.py:63-64, the action main dispatches an event on ("<none>" when the
\* body does not parse to an object)
ActionOf(ev) ==
  IF json_loads(BodyText(ev)).raised \/ BodyText(ev).t # "object" THEN "<none>"
  ELSE GetD(BodyText(ev).o.action, "status")

DataActions == {"list", "create", "delete", "upload", "list-media", "delete-media"}

Status ==
  \E ev \in StatusEvents :
    /\ ActionOf(ev) \notin DataActions \cup {"<none>"}
    /\ main(ev, NoFault, None)

Malformed ==
  \E ev \in BadEvents :
    /\ ActionOf(ev) = "<none>"
    /\ main(ev, NoFault, None)

ListItems ==
  \E ev \in EventsOf(ListObjs), f \in {NoFault, "select_items"} :
    /\ ActionOf(ev) = "list"
    /\ main(ev, f, None)

CreateItem ==
  \E ev \in EventsOf(CreateObjs), f \in {NoFault, "insert_item"} :
    /\ ActionOf(ev) = "create"
    /\ items_seq + Cardinality(issued) < MaxSerial
    /\ main(ev, f, None)

DeleteItem ==
  \E ev \in EventsOf(DeleteObjs), f \in {NoFault, "delete_item_row"} :
    /\ ActionOf(ev) = "delete"
    /\ main(ev, f, None)

UploadMedia ==
  \E ev \in EventsOf(UploadObjs),
     f \in {NoFault, "put_object", "presign", "insert_media"} :
    /\ ActionOf(ev) = "upload"
    /\ items_seq + Cardinality(issued) < MaxSerial
    /\ f # NoFault => Truthy(ev.body[1].o.data)
    /\ main(ev, f, Some(uuid4))

ListMedia ==
  \E ev \in EventsOf(ListMediaObjs), f \in {NoFault, "select_media", "presign"} :
    /\ ActionOf(ev) = "list-media"
    /\ main(ev, f, None)

DeleteMedia ==
  \E ev \in EventsOf(DeleteMediaObjs),
     f \in {NoFault, "select_media", "delete_object", "delete_media_row"} :
    /\ ActionOf(ev) = "delete-media"
    /\ f \in {"delete_object", "delete_media_row"} => ev.body[1].o.id # None
    /\ main(ev, f, None)

\* ------------------------------------------------------------ specification
Init ==
  /\ \E db_url \in DbUrls, bucket \in Buckets, outcome \in StartupOutcomes,
        existed \in BOOLEAN :
       LET up == Startup(db_url, bucket, outcome, existed)
       IN  /\ env = [ DATABASE_URL |-> db_url, STORAGE_BUCKET |-> bucket ]
           /\ db_conn = up.db_conn
           /\ db_error = up.db_error
           /\ s3_bucket = up.s3_bucket
           /\ s3_client = up.s3_client
           /\ items_tbl = up.items_tbl
           /\ media_tbl = up.media_tbl
  /\ items = {} /\ items_seq = 0
  /\ media = {} /\ media_seq = 0
  /\ store = {} /\ issued = {}
  /\ event = NoEvent /\ fault = NoFault
  /\ resp = NoResponse /\ caught = None
  /\ s3log = <<>> /\ createdIds = <<>> /\ uploadKeys = <<>>

Next ==
  \/ Status
  \/ Malformed
  \/ ListItems
  \/ CreateItem
  \/ DeleteItem
  \/ UploadMedia
  \/ ListMedia
  \/ DeleteMedia

Spec == Init /\ [][Next]_vars

\* ===================================================================== claims
\* What the last request was, as main reads it (handler.py:63-64).
Served == resp.statusCode # 0
ReqAction == ActionOf(event)
Parsed == ReqAction # "<none>"
ReqId == BodyText(event).o.id
IsDataRequest == Served /\ ReqAction \in DataActions
IsProbe == Served /\ Parsed /\ ReqAction \notin DataActions
ErrorText == resp.body.json.error
Carries(msg, text) == \E i \in DOMAIN msg : msg[i] = text
Succeeded(op) == \E i \in DOMAIN s3log : s3log[i].op = op /\ s3log[i].ok

RowsHaveObjects == \A m \in media : m.s3_key \in Keys(store)

\* C1 (as stated): in every reachable state, also after requests in which a
\* store call fails part-way, every media row has an object under its s3_key.
C1_AsStated == RowsHaveObjects

\* C1 (amended): every request preserves "every media row has an object
\* under its s3_key", except a delete-media request answered with HTTP 500
\* after its object deletion succeeded.
C1_RowsKeepObjects ==
  [][ ( /\ RowsHaveObjects
        /\ ~( /\ ReqAction' = "delete-media"
              /\ resp'.statusCode = 500
              /\ Succeeded("delete_object")' ) )
      => RowsHaveObjects' ]_vars

C1_Witness ==
  /\ ReqAction = "upload" /\ fault = "insert_media"
  /\ media # {} /\ RowsHaveObjects
  /\ Cardinality(store) > Cardinality(media)

\* C2 (as stated): with DATABASE_URL missing, the status probe reports
\* db=false and a non-empty dbError, and every data operation returns HTTP
\* 500 with a "not connected" message.
C2_AsStated ==
  env.DATABASE_URL = None =>
    /\ IsProbe => /\ resp.statusCode = 200
                  /\ resp.body.json.db = FALSE
                  /\ resp.body.json.dbError # ""
    /\ IsDataRequest => /\ resp.statusCode = 500
                        /\ ErrorText[1] = "Database not connected: "

\* C3: main returns for every event a record with statusCode 200 or 500 and
\* the two fixed headers; the statusCode is 500 exactly when parsing or the
\* operation raised, and then the body is {"error": str(e)}; a body that is
\* no JSON, or no JSON object, gives 500.
C3_MainNeverRaises ==
  Served =>
    /\ resp.statusCode \in {200, 500}
    /\ resp.headers = [ ContentType |-> "application/json",
                        AccessControlAllowOrigin |-> "*" ]
    /\ (resp.statusCode = 500) <=> (caught # None)
    /\ caught # None => resp.body = [ json |-> [ error |-> caught[1] ] ]
    /\ event \in BadEvents => resp.statusCode = 500
    /\ IsProbe => resp.statusCode = 200

C3_Witness ==
  /\ event = Event(Some(ArrayText))
  /\ resp.statusCode = 500
  /\ items # {}

\* C4: a delete-media request whose id matches no media row, with the
\* database and the storage available, makes no object-store call, leaves
\* the media table and the object store unchanged, and returns HTTP 200 with
\* deleted=false.
C4_DeleteMissingMedia ==
  [][ ( /\ ReqAction' = "delete-media"
        /\ db_conn # None /\ s3_client # None /\ media_tbl
        /\ fault' = NoFault
        /\ ~ \E m \in media : ReqId' # None /\ m.id = ReqId'[1] )
      => /\ s3log' = <<>>
         /\ media' = media
         /\ store' = store
         /\ resp'.statusCode = 200
         /\ resp'.body.json = [ deleted |-> FALSE ] ]_vars

C4_Witness ==
  /\ ReqAction = "delete-media" /\ fault = NoFault
  /\ resp.statusCode = 200 /\ resp.body.json = [ deleted |-> FALSE ]
  /\ media # {} /\ store # {}
  /\ ReqId # None

\* C5: the storage keys generated by the uploads are pairwise distinct, also
\* for equal filenames, so that no upload writes under the key of a prior
\* one; no two media rows share an s3_key, and every stored object lies
\* under the key of one upload.
C5_KeysDistinct ==
  /\ \A i, j \in DOMAIN uploadKeys : uploadKeys[i] = uploadKeys[j] => i = j
  /\ \A m, n \in media : m.s3_key = n.s3_key => m = n
  /\ \A o \in store : Carries(uploadKeys, o.Key)

C5_Witness ==
  /\ Len(uploadKeys) = 2
  /\ Cardinality(media) = 2
  /\ \A m, n \in media : m.filename = n.filename
  /\ Cardinality(store) = 2

C7_AsStated ==
  db_error # None =>
    /\ IsDataRequest => /\ resp.statusCode = 500
                        /\ Carries(ErrorText, db_error[1])
    /\ IsProbe => resp.statusCode = 200

\* C8: a delete request whose DELETE statement runs (connection present)
\* returns HTTP 200 with deleted=true exactly when a row with the id existed
\* before; afterwards no row has that id and every other row is unchanged.
C8_DeleteItem ==
  [][ ( /\ ReqAction' = "delete"
        /\ db_conn # None /\ items_tbl
        /\ fault' = NoFault )
      => /\ resp'.statusCode = 200
         /\ resp'.body.json =
              [ deleted |-> \E r \in items : ReqId' # None /\ r.id = ReqId'[1] ]
         /\ ~ \E r \in items' : ReqId' # None /\ r.id = ReqId'[1]
         /\ items' = { r \in items : ReqId' = None \/ r.id # ReqId'[1] } ]_vars

C8_Witness ==
  /\ ReqAction = "delete" /\ fault = NoFault
  /\ resp.statusCode = 200 /\ resp.body.json = [ deleted |-> TRUE ]
  /\ items # {}

\* C9 (as stated): the status probe's storage flag is true exactly when the
\* storage check of upload and delete-media passes.
C9_AsStated ==
  (IsProbe /\ resp.statusCode = 200) =>
    (resp.body.json.storage <=> s3_client # None)

\* C10 (as stated): a request answered with HTTP 500 leaves the items
\* table, the media table and the object store as they were.
C10_AsStated ==
  [][ resp'.statusCode = 500 =>
        /\ items' = items
        /\ media' = media
        /\ store' = store ]_vars

\* C10 (amended): a request answered with HTTP 500 leaves the items table
\* and the media table as they were, and the object store too unless the
\* request's own put_object or delete_object had succeeded: then the store
\* differs by exactly that object.
C10_NoEffectBeforeStoreCall ==
  [][ resp'.statusCode = 500 =>
        /\ items' = items
        /\ media' = media
        /\ store' # store =>
             \/ /\ ReqAction' = "upload" /\ Succeeded("put_object")'
                /\ store \subseteq store'
                /\ Cardinality(store') = Cardinality(store) + 1
             \/ /\ ReqAction' = "delete-media" /\ Succeeded("delete_object")'
                /\ store' \subseteq store
                /\ Cardinality(store') = Cardinality(store) - 1 ]_vars

C10_Witness ==
  /\ resp.statusCode = 500
  /\ ReqAction = "delete-media" /\ fault = "delete_media_row"
  /\ \E m \in media : m.s3_key \notin Keys(store)

====
